---------------------------- MODULE Spec2Model ----------------------------
(***************************************************************************)
(* Model of src/ZJJTools/main.py: the FastAPI service that drafts (V1),    *)
(* critiques (feedback) and rewrites (V3) a medication-education text      *)
(* through an upstream chat-completion endpoint.                           *)
(*                                                                         *)
(* Text is a sequence of one-character strings.  The fixed parts of the    *)
(* three prompt templates are single symbols ("<V1_HEAD>", ...), so that a *)
(* prompt is the sequence  template symbols + interpolated characters.     *)
(* Python values are tagged records: Str(s), Lit("None"|"False"|...),      *)
(* Dict(items).                                                            *)
(***************************************************************************)
EXTENDS Integers, Sequences, FiniteSets, TLC

(***************************************************************************)
(* Python values                                                           *)
(***************************************************************************)
Str(s) == [t |-> "str", str |-> s]
Lit(n) == [t |-> "lit", lit |-> n]
Dict(items) == [t |-> "dict", items |-> items]
None == Lit("None")

(***************************************************************************)
(* Characters.  The model's texts are over Chars; digits, '[', '-', 'u'    *)
(* and capital letters are not in it, so JSON numbers, arrays, \uXXXX      *)
(* escapes and NaN/Infinity cannot occur in a reply.                       *)
(***************************************************************************)
QUOTE == "\""
BSLASH == "\\"
\* the backtick character (SANY does not read a backtick inside a string)
TICK == "<TICK>"
Whitespace == {" ", "\t", "\n", "\r"}
ControlChars == {"\t", "\n", "\r", "\f", "<BS>"}
Letters == {"a", "b", "c", "d", "e", "f", "h", "i", "j", "k", "l", "n", "o", "s"}
Chars == Letters \cup Whitespace \cup {"{", "}", QUOTE, ":", ",", BSLASH, TICK}

RECURSIVE Flatten(_)
Flatten(ss) == IF ss = <<>> THEN <<>> ELSE Head(ss) \o Flatten(Tail(ss))

(***************************************************************************)
(* re.sub of the pattern  fence+json | fence  by the empty string, where   *)
(* fence is three backticks: leftmost, non-overlapping; at a position the  *)
(* alternative with json is tried first.                                   *)
(***************************************************************************)
StartsWithAt(s, i, pat) ==
    /\ i + Len(pat) - 1 <= Len(s)
    /\ \A k \in 1..Len(pat) : s[i + k - 1] = pat[k]

Fence == <<TICK, TICK, TICK>>
FenceJson == <<TICK, TICK, TICK, "j", "s", "o", "n">>

RECURSIVE StripFencesFrom(_, _)
StripFencesFrom(s, i) ==
    IF i > Len(s) THEN <<>>
    ELSE IF StartsWithAt(s, i, FenceJson) THEN StripFencesFrom(s, i + Len(FenceJson))
    ELSE IF StartsWithAt(s, i, Fence) THEN StripFencesFrom(s, i + Len(Fence))
    ELSE <<s[i]>> \o StripFencesFrom(s, i + 1)

StripFences(s) == StripFencesFrom(s, 1)

(***************************************************************************)
(* str.strip(): drop leading and trailing whitespace.                      *)
(***************************************************************************)
Strip(s) ==
    LET nonws == {i \in 1..Len(s) : s[i] \notin Whitespace}
    IN  IF nonws = {} THEN <<>>
        ELSE LET lo == CHOOSE i \in nonws : \A j \in nonws : i <= j
                 hi == CHOOSE i \in nonws : \A j \in nonws : j <= i
             IN  SubSeq(s, lo, hi)

(***************************************************************************)
(* re.search(r"\{.*\}", content, re.DOTALL): the match starts at the first *)
(* '{' and, '.*' being greedy and matching newlines, ends at the last '}'  *)
(* after it.  NoMatch when there is no '{' or no '}' after the first '{'.  *)
(***************************************************************************)
NoMatch == [found |-> FALSE]

\* the search with a lazy '.*?': the match ends at the first '}'
SearchBraces_lazy(s) ==
    LET opens == {i \in 1..Len(s) : s[i] = "{"}
    IN  IF opens = {} THEN NoMatch
        ELSE LET first == CHOOSE i \in opens : \A j \in opens : i <= j
                 closes == {i \in (first + 1)..Len(s) : s[i] = "}"}
             IN  IF closes = {} THEN NoMatch
                 ELSE LET last == CHOOSE i \in closes : \A j \in closes : i <= j
                      IN  [found |-> TRUE, group |-> SubSeq(s, first, last)]

SearchBraces(s) ==
    LET opens == {i \in 1..Len(s) : s[i] = "{"}
    IN  IF opens = {} THEN NoMatch
        ELSE LET first == CHOOSE i \in opens : \A j \in opens : i <= j
                 closes == {i \in (first + 1)..Len(s) : s[i] = "}"}
             IN  IF closes = {} THEN NoMatch
                 ELSE LET last == CHOOSE i \in closes : \A j \in closes : j <= i
                      IN  [found |-> TRUE, group |-> SubSeq(s, first, last)]

(***************************************************************************)
(* re.sub(r"[\n\r\t]", " ", span)                                          *)
(***************************************************************************)
\* the substitution with the class [\n] only
NormalizeChar_newline(c) == IF c = "\n" THEN " " ELSE c

NormalizeChar(c) == IF c \in {"\n", "\r", "\t"} THEN " " ELSE c

Normalize(s) == [i \in 1..Len(s) |-> NormalizeChar(s[i])]

(***************************************************************************)
(* json.loads over Chars: objects, strings, and the literals true, false   *)
(* and null.  A parse result is [ok, val, pos] with pos the index after    *)
(* the parsed text.                                                        *)
(***************************************************************************)
ParseFail == [ok |-> FALSE]
Parsed(v, p) == [ok |-> TRUE, val |-> v, pos |-> p]

RECURSIVE SkipWs(_, _)
SkipWs(s, i) ==
    IF i <= Len(s) /\ s[i] \in Whitespace THEN SkipWs(s, i + 1) ELSE i

\* the backslash escapes of a JSON string and the character each stands for
EscapeChars == {QUOTE, BSLASH, "/", "b", "f", "n", "r", "t"}
Unescape(c) ==
    CASE c = "b" -> "<BS>"
      [] c = "f" -> "\f"
      [] c = "n" -> "\n"
      [] c = "r" -> "\r"
      [] c = "t" -> "\t"
      [] OTHER -> c

\* scanstring(s, i, strict=True): i is the index after the opening quote
RECURSIVE ScanString(_, _, _)
ScanString(s, i, acc) ==
    IF i > Len(s) THEN ParseFail
    ELSE IF s[i] = QUOTE THEN Parsed(acc, i + 1)
    ELSE IF s[i] = BSLASH THEN
        IF i + 1 <= Len(s) /\ s[i + 1] \in EscapeChars
        THEN ScanString(s, i + 2, Append(acc, Unescape(s[i + 1])))
        ELSE ParseFail
    ELSE IF s[i] \in ControlChars THEN ParseFail
    ELSE ScanString(s, i + 1, Append(acc, s[i]))

\* a dict keeps the position of a key's first insertion and its last value
DictPut(items, k, v) ==
    IF \E i \in 1..Len(items) : items[i].k = k
    THEN [i \in 1..Len(items) |->
            IF items[i].k = k THEN [k |-> k, v |-> v] ELSE items[i]]
    ELSE Append(items, [k |-> k, v |-> v])

\* obj.get(k) without the default
DictGet_nodefault(items, k, default) ==
    IF \E i \in 1..Len(items) : items[i].k = k
    THEN items[CHOOSE i \in 1..Len(items) : items[i].k = k].v
    ELSE None

DictGet(items, k, default) ==
    IF \E i \in 1..Len(items) : items[i].k = k
    THEN items[CHOOSE i \in 1..Len(items) : items[i].k = k].v
    ELSE default

Literals ==
    << [text |-> <<"n", "u", "l", "l">>, val |-> Lit("None")],
       [text |-> <<"t", "r", "u", "e">>, val |-> Lit("True")],
       [text |-> <<"f", "a", "l", "s", "e">>, val |-> Lit("False")] >>

RECURSIVE ParseValue(_, _)
RECURSIVE ParseObject(_, _)
RECURSIVE ParseMembers(_, _, _)

\* scan_once(s, i)
ParseValue(s, i) ==
    IF i > Len(s) THEN ParseFail
    ELSE IF s[i] = QUOTE THEN
        LET r == ScanString(s, i + 1, <<>>)
        IN  IF r.ok THEN Parsed(Str(r.val), r.pos) ELSE ParseFail
    ELSE IF s[i] = "{" THEN ParseObject(s, i + 1)
    ELSE IF \E n \in 1..Len(Literals) : StartsWithAt(s, i, Literals[n].text) THEN
        LET n == CHOOSE m \in 1..Len(Literals) : StartsWithAt(s, i, Literals[m].text)
        IN  Parsed(Literals[n].val, i + Len(Literals[n].text))
    ELSE ParseFail

\* JSONObject((s, i)): i is the index after '{'
ParseObject(s, i) ==
    LET j == SkipWs(s, i)
    IN  IF j > Len(s) THEN ParseFail
        ELSE IF s[j] = "}" THEN Parsed(Dict(<<>>), j + 1)
        ELSE ParseMembers(s, j, <<>>)

\* the loop of JSONObject: i is at the opening quote of the next key
ParseMembers(s, i, items) ==
    IF i > Len(s) \/ s[i] # QUOTE THEN ParseFail
    ELSE
    LET key == ScanString(s, i + 1, <<>>)
    IN  IF ~key.ok THEN ParseFail
        ELSE
        LET c == SkipWs(s, key.pos)
        IN  IF c > Len(s) \/ s[c] # ":" THEN ParseFail
            ELSE
            LET v == ParseValue(s, SkipWs(s, c + 1))
            IN  IF ~v.ok THEN ParseFail
                ELSE
                LET e == SkipWs(s, v.pos)
                    put == DictPut(items, key.val, v.val)
                IN  IF e > Len(s) THEN ParseFail
                    ELSE IF s[e] = "}" THEN Parsed(Dict(put), e + 1)
                    ELSE IF s[e] = "," THEN ParseMembers(s, SkipWs(s, e + 1), put)
                    ELSE ParseFail

\* JSONDecoder.decode: one value between optional whitespace, nothing after
json_loads(s) ==
    LET r == ParseValue(s, SkipWs(s, 1))
    IN  IF r.ok /\ SkipWs(s, r.pos) > Len(s) THEN [ok |-> TRUE, val |-> r.val]
        ELSE ParseFail

(***************************************************************************)
(* Results of a call that may raise                                        *)
(***************************************************************************)
Return(v) == [ok |-> TRUE, val |-> v]
Raise(e) == [ok |-> FALSE, err |-> e]

KeyFeedback == <<"f", "e", "e", "d", "b", "a", "c", "k">>

(***************************************************************************)
(* The part of self_refine_education after chat() has returned content     *)
(* (lines 84-90).  content is a Python value: re.sub raises TypeError on   *)
(* None.                                                                   *)
(***************************************************************************)
extract_feedback(content) ==
    IF content.t # "str" THEN Raise("TypeError")
    ELSE
    LET stripped == Strip(StripFences(content.str))
        m == SearchBraces(stripped)
    IN  IF ~m.found THEN Raise("RuntimeError")
        ELSE
        LET json_str == Normalize(m.group)
            obj == json_loads(json_str)
        IN  IF ~obj.ok THEN Raise("JSONDecodeError")
            ELSE Return(DictGet(obj.val.items, KeyFeedback, Str(<<>>)))

(***************************************************************************)
(* str(v) as an f-string interpolates it, and repr(v) for the members of a *)
(* dict.  repr of a str uses single quotes unless the text has a single    *)
(* quote and no double quote.                                              *)
(***************************************************************************)
SQUOTE == "'"

ReprChar(c, q) ==
    CASE c = BSLASH -> <<BSLASH, BSLASH>>
      [] c = q -> <<BSLASH, q>>
      [] c = "\n" -> <<BSLASH, "n">>
      [] c = "\r" -> <<BSLASH, "r">>
      [] c = "\t" -> <<BSLASH, "t">>
      [] c = "\f" -> <<BSLASH, "x", "0", "c">>
      [] c = "<BS>" -> <<BSLASH, "x", "0", "8">>
      [] OTHER -> <<c>>

ReprStr(s) ==
    LET has(c) == \E i \in 1..Len(s) : s[i] = c
        q == IF has(SQUOTE) /\ ~has(QUOTE) THEN QUOTE ELSE SQUOTE
    IN  <<q>> \o Flatten([i \in 1..Len(s) |-> ReprChar(s[i], q)]) \o <<q>>

LitText(n) ==
    CASE n = "None" -> <<"N", "o", "n", "e">>
      [] n = "True" -> <<"T", "r", "u", "e">>
      [] n = "False" -> <<"F", "a", "l", "s", "e">>

RECURSIVE Repr(_)
Repr(v) ==
    CASE v.t = "str" -> ReprStr(v.str)
      [] v.t = "lit" -> LitText(v.lit)
      [] v.t = "dict" ->
            <<"{">>
            \o Flatten([i \in 1..Len(v.items) |->
                  (IF i > 1 THEN <<",", " ">> ELSE <<>>)
                  \o ReprStr(v.items[i].k) \o <<":", " ">> \o Repr(v.items[i].v)])
            \o <<"}">>

PyStr(v) == IF v.t = "str" THEN v.str ELSE Repr(v)

(***************************************************************************)
(* class Patient: six required str fields.  The field names stand for the  *)
(* source's 姓名, 年龄, 性别, 诊断, 药品, 用量.                            *)
(***************************************************************************)
PatientFields == <<"name", "age", "sex", "diagnosis", "medication", "dosage">>

\* json.dumps of a str with ensure_ascii=False
JsonEscapeChar(c) ==
    CASE c = QUOTE -> <<BSLASH, QUOTE>>
      [] c = BSLASH -> <<BSLASH, BSLASH>>
      [] c = "\n" -> <<BSLASH, "n">>
      [] c = "\r" -> <<BSLASH, "r">>
      [] c = "\t" -> <<BSLASH, "t">>
      [] c = "\f" -> <<BSLASH, "f">>
      [] c = "<BS>" -> <<BSLASH, "b">>
      [] OTHER -> <<c>>

JsonString(s) ==
    <<QUOTE>> \o Flatten([i \in 1..Len(s) |-> JsonEscapeChar(s[i])]) \o <<QUOTE>>

\* json.dumps(patient, ensure_ascii=False) and, with indent, indent=2
json_dumps(patient, indent) ==
    LET open == IF indent THEN <<"{", "\n", " ", " ">> ELSE <<"{">>
        sep == IF indent THEN <<",", "\n", " ", " ">> ELSE <<",", " ">>
        close == IF indent THEN <<"\n", "}">> ELSE <<"}">>
        member(i) ==
            (IF i > 1 THEN sep ELSE <<>>)
            \o <<QUOTE, PatientFields[i], QUOTE, ":", " ">>
            \o JsonString(patient[PatientFields[i]])
    IN  open \o Flatten([i \in 1..Len(PatientFields) |-> member(i)]) \o close

(***************************************************************************)
(* The three prompts (f-strings); a template's fixed text is one symbol.   *)
(***************************************************************************)
V1Prompt(patient) ==
    <<"<V1_HEAD>">> \o json_dumps(patient, FALSE) \o <<"<V1_TEMPLATE>">>

FeedbackPrompt(patient, v1) ==
    <<"<FB_HEAD>">> \o json_dumps(patient, TRUE)
    \o <<"<FB_V1>">> \o v1 \o <<"<FB_RULES>">>

\* the refine prompt without the feedback interpolated
V3Prompt_nofeedback(patient, v1, feedback) ==
    <<"<V3_HEAD>">> \o json_dumps(patient, TRUE)
    \o <<"<V3_V1>">> \o v1
    \o <<"<V3_FEEDBACK>">> \o <<"<V3_TAIL>">>

V3Prompt(patient, v1, feedback) ==
    <<"<V3_HEAD>">> \o json_dumps(patient, TRUE)
    \o <<"<V3_V1>">> \o v1
    \o <<"<V3_FEEDBACK>">> \o PyStr(feedback) \o <<"<V3_TAIL>">>

(***************************************************************************)
(* chat(messages, temp): one POST; the upstream's answer is a timeout or a *)
(* response with a status and a body that has the expected shape (with a   *)
(* content value) or not.  Temperatures are in tenths.                     *)
(***************************************************************************)
MODEL == "gpt-4o"
TEMP_DEFAULT == 0
TEMP_GENERATE == 2

Pending == [t |-> "pending"]
Timeout == [t |-> "timeout"]
Response(status, body) == [t |-> "response", status |-> status, body |-> body]
BadBody == [shape |-> FALSE]
Completion(content) == [shape |-> TRUE, content |-> content]

Payload(messages, temp) ==
    [model |-> MODEL, messages |-> messages, temperature |-> temp]

UserMessage(prompt) == <<[role |-> "user", content |-> prompt]>>

\* what chat returns or raises once the upstream has answered
chat(answer) ==
    IF answer.t = "timeout" THEN Raise("ReadTimeout")
    ELSE IF answer.status \notin 200..299 THEN Raise("HTTPStatusError")
    ELSE IF ~answer.body.shape THEN Raise("KeyError")
    ELSE Return(answer.body.content)

\* the payload each stage posts
\* the draft call without temp=0.2
generate_v1_default_temp(patient) ==
    Payload(UserMessage(V1Prompt(patient)), TEMP_DEFAULT)

generate_v1(patient) == Payload(UserMessage(V1Prompt(patient)), TEMP_GENERATE)

self_refine_education(patient, v1) ==
    Payload(UserMessage(FeedbackPrompt(patient, v1)), TEMP_DEFAULT)

generate_v3(patient, v1, feedback) ==
    Payload(UserMessage(V3Prompt(patient, v1, feedback)), TEMP_GENERATE)

\* a feedback stage that swallows its failures into an empty feedback
self_refine_result_swallow(answer) ==
    LET content == chat(answer)
        fb == IF content.ok THEN extract_feedback(content.val) ELSE content
    IN  IF fb.ok THEN fb ELSE Return(Str(<<>>))

\* the rest of self_refine_education once chat has answered
self_refine_result(answer) ==
    LET content == chat(answer)
    IN  IF content.ok THEN extract_feedback(content.val) ELSE content

(***************************************************************************)
(* Responses of the handlers.  except Exception -> HTTPException(500,      *)
(* detail=str(e)); the text of an exception is its name here.              *)
(***************************************************************************)
HTTPException(e) == [status |-> 500, body |-> [detail |-> e]]
Ok(body) == [status |-> 200, body |-> body]

api_v1_response(v1) ==
    IF v1.ok THEN Ok([v1 |-> v1.val]) ELSE HTTPException(v1.err)

\* a handler that returns the feedback alone when the refine stage fails
api_refine_response_partial(feedback, v3) ==
    IF v3.ok THEN Ok([feedback |-> feedback, v3 |-> v3.val])
    ELSE Ok([feedback |-> feedback])

api_refine_response(feedback, v3) ==
    IF v3.ok THEN Ok([feedback |-> feedback, v3 |-> v3.val])
    ELSE HTTPException(v3.err)

(***************************************************************************)
(* Bounded inputs of the service                                           *)
(***************************************************************************)
NReq == 2
Reqs == 1..NReq

PlainPatient == [f \in {PatientFields[i] : i \in 1..Len(PatientFields)} |-> <<"a">>]
QuotedPatient == [PlainPatient EXCEPT !["name"] = <<"a", QUOTE, "b">>,
                                      !["dosage"] = <<"{", "\n", "}">>]

\* the (patient, v1) payloads a client posts; /api/v1 takes the patient only
Payloads ==
    { [patient |-> PlainPatient, v1 |-> <<"o", "k">>],
      [patient |-> QuotedPatient, v1 |-> <<"{", QUOTE, "a", QUOTE, "}", "\n">>] }

FeedbackObject(value) == <<"{", QUOTE>> \o KeyFeedback \o <<QUOTE, ":">> \o value \o <<"}">>

\* the text between "ok" and "line" is a raw newline, inside the string
OkLineReply ==
    <<"o", "k", " ">>
    \o FeedbackObject(<<QUOTE, "o", "k", "\n", "l", "i", "n", "e", QUOTE>>)
    \o <<"\n">>

ServiceContents ==
    { Str(OkLineReply),
      Str(<<"{", QUOTE, "a", QUOTE, ":", QUOTE, "b", QUOTE, "}">>),
      Str(<<"o", "k">>),
      Str(<<"{", "a", "}">>),
      None }

Answers ==
    {Timeout, Response(500, Completion(Str(OkLineReply))), Response(200, BadBody)}
    \cup {Response(200, Completion(c)) : c \in ServiceContents}

(***************************************************************************)
(* State: one entry per request.  calls[r] are the POSTs request r has     *)
(* made, each with the upstream's answer once it has arrived; feedback[r]  *)
(* is the local variable of api_refine.                                    *)
(***************************************************************************)
VARIABLES kind, pc, payload, calls, feedback, response, xraw, xres

svars == <<kind, pc, payload, calls, feedback, response>>
xvars == <<xraw, xres>>
vars == <<kind, pc, payload, calls, feedback, response, xraw, xres>>

Unset == [t |-> "unset"]
NoPayload == [none |-> TRUE]
NoResponse == [status |-> 0, body |-> [none |-> TRUE]]

Call(p) == [payload |-> p, answer |-> Pending]

Answered(cs, a) == [cs EXCEPT ![Len(cs)].answer = a]

Init ==
    /\ kind = [r \in Reqs |-> "idle"]
    /\ pc = [r \in Reqs |-> "idle"]
    /\ payload = [r \in Reqs |-> NoPayload]
    /\ calls = [r \in Reqs |-> <<>>]
    /\ feedback = [r \in Reqs |-> Unset]
    /\ response = [r \in Reqs |-> NoResponse]
    /\ xraw = <<>>
    /\ xres = Unset

\* POST /api/v1 up to the await of the completion call
ApiV1Start(r) ==
    /\ pc[r] = "idle"
    /\ \E p \in Payloads :
        /\ payload' = [payload EXCEPT ![r] = [patient |-> p.patient]]
        /\ calls' = [calls EXCEPT ![r] = <<Call(generate_v1(p.patient))>>]
    /\ kind' = [kind EXCEPT ![r] = "v1"]
    /\ pc' = [pc EXCEPT ![r] = "await_v1"]
    /\ UNCHANGED <<feedback, response, xvars>>

\* a handler that posts the draft call once more after a failure
ApiV1Reply_retry(r) ==
    /\ pc[r] = "await_v1"
    /\ \E a \in Answers :
        IF ~chat(a).ok /\ Len(calls[r]) < 2
        THEN /\ calls' = [calls EXCEPT ![r] =
                    Append(Answered(@, a), Call(generate_v1(payload[r].patient)))]
             /\ UNCHANGED <<response, pc>>
        ELSE /\ calls' = [calls EXCEPT ![r] = Answered(@, a)]
             /\ response' = [response EXCEPT ![r] = api_v1_response(chat(a))]
             /\ pc' = [pc EXCEPT ![r] = "done"]
    /\ UNCHANGED <<kind, payload, feedback, xvars>>

\* the completion call of /api/v1 ends; the handler returns or raises
ApiV1Reply(r) ==
    /\ pc[r] = "await_v1"
    /\ \E a \in Answers :
        /\ calls' = [calls EXCEPT ![r] = Answered(@, a)]
        /\ response' = [response EXCEPT ![r] = api_v1_response(chat(a))]
    /\ pc' = [pc EXCEPT ![r] = "done"]
    /\ UNCHANGED <<kind, payload, feedback, xvars>>

\* POST /api/refine up to the await of the feedback-stage call
ApiRefineStart(r) ==
    /\ pc[r] = "idle"
    /\ \E p \in Payloads :
        /\ payload' = [payload EXCEPT ![r] = p]
        /\ calls' = [calls EXCEPT ![r] = <<Call(self_refine_education(p.patient, p.v1))>>]
    /\ kind' = [kind EXCEPT ![r] = "refine"]
    /\ pc' = [pc EXCEPT ![r] = "await_feedback"]
    /\ UNCHANGED <<feedback, response, xvars>>

\* a handler whose feedback is a module-level variable: it reads the value
\* another request has stored
ApiRefineFeedbackReply_shared(r) ==
    /\ pc[r] = "await_feedback"
    /\ \E a \in Answers :
        LET fb == self_refine_result(a)
            answered == Answered(calls[r], a)
            others == {q \in Reqs \ {r} : feedback[q] # Unset}
            used == IF others = {} THEN fb.val ELSE feedback[CHOOSE q \in others : TRUE]
        IN  IF fb.ok
            THEN /\ feedback' = [feedback EXCEPT ![r] = used]
                 /\ calls' = [calls EXCEPT ![r] =
                        Append(answered,
                               Call(generate_v3(payload[r].patient, payload[r].v1, used)))]
                 /\ pc' = [pc EXCEPT ![r] = "await_v3"]
                 /\ UNCHANGED response
            ELSE /\ calls' = [calls EXCEPT ![r] = answered]
                 /\ response' = [response EXCEPT ![r] = HTTPException(fb.err)]
                 /\ pc' = [pc EXCEPT ![r] = "done"]
                 /\ UNCHANGED feedback
    /\ UNCHANGED <<kind, payload, xvars>>

\* the feedback-stage call ends: extraction, then the refine-stage call is
\* posted, or the handler raises
ApiRefineFeedbackReply(r) ==
    /\ pc[r] = "await_feedback"
    /\ \E a \in Answers :
        LET fb == self_refine_result(a)
            answered == Answered(calls[r], a)
        IN  IF fb.ok
            THEN /\ feedback' = [feedback EXCEPT ![r] = fb.val]
                 /\ calls' = [calls EXCEPT ![r] =
                        Append(answered,
                               Call(generate_v3(payload[r].patient, payload[r].v1, fb.val)))]
                 /\ pc' = [pc EXCEPT ![r] = "await_v3"]
                 /\ UNCHANGED response
            ELSE /\ calls' = [calls EXCEPT ![r] = answered]
                 /\ response' = [response EXCEPT ![r] = HTTPException(fb.err)]
                 /\ pc' = [pc EXCEPT ![r] = "done"]
                 /\ UNCHANGED feedback
    /\ UNCHANGED <<kind, payload, xvars>>

\* the refine-stage call ends; the handler returns or raises
ApiRefineV3Reply(r) ==
    /\ pc[r] = "await_v3"
    /\ \E a \in Answers :
        /\ calls' = [calls EXCEPT ![r] = Answered(@, a)]
        /\ response' = [response EXCEPT ![r] = api_refine_response(feedback[r], chat(a))]
    /\ pc' = [pc EXCEPT ![r] = "done"]
    /\ UNCHANGED <<kind, payload, feedback, xvars>>

\* GET /ping
ping(r) ==
    /\ pc[r] = "idle"
    /\ kind' = [kind EXCEPT ![r] = "ping"]
    /\ response' = [response EXCEPT ![r] = Ok([text |-> "pong"])]
    /\ pc' = [pc EXCEPT ![r] = "done"]
    /\ UNCHANGED <<payload, calls, feedback, xvars>>

Next ==
    \/ \E r \in Reqs : ApiV1Start(r)
    \/ \E r \in Reqs : ApiV1Reply(r)
    \/ \E r \in Reqs : ApiRefineStart(r)
    \/ \E r \in Reqs : ApiRefineFeedbackReply(r)
    \/ \E r \in Reqs : ApiRefineV3Reply(r)
    \/ \E r \in Reqs : ping(r)

Spec == Init /\ [][Next]_vars

(***************************************************************************)
(* The extractor on its own: xraw is a reply text, xres the outcome of     *)
(* the extraction.                                                         *)
(***************************************************************************)
MaxLen == 3
ShortChars == {"{", "}", QUOTE, ":", "a", " ", "\n"}

RECURSIVE TextsUpTo(_)
TextsUpTo(n) ==
    IF n = 0 THEN {<<>>}
    ELSE LET shorter == TextsUpTo(n - 1)
         IN  shorter \cup {Append(t, c) : t \in shorter, c \in ShortChars}

Quoted(s) == <<QUOTE>> \o s \o <<QUOTE>>

Prefixes ==
    { <<>>, <<"o", "k", " ">>, FenceJson \o <<"\n">>, <<"{", "a", "}", " ">>, <<"\t">> }
Suffixes ==
    { <<>>, <<" ", "o", "k">>, <<"\n">> \o Fence, <<" ", "}">>, <<"\r", "\n">> }
Gaps == { <<>>, <<" ">>, <<"\n">>, <<"\t", "\r">> }

OkLine(w) == <<"o", "k", w, "l", "i", "n", "e">>

\* string bodies without a backslash or a quote: each is its own value
PlainBodies ==
    { <<>>, <<"o", "k">>, <<"a", "{", "b", "}", "c">>, <<"a">> \o Fence \o <<"b">>,
      <<"a", "}", " ", "{">>, <<"\n">> }
    \cup {OkLine(w) : w \in Whitespace}
EscapedBodies ==
    { <<"a", BSLASH, "n", "b">>, <<"a", BSLASH, QUOTE, "b">>, <<"a", BSLASH>>,
      <<BSLASH, "b", BSLASH, "f", BSLASH, BSLASH>>, <<BSLASH, "\n">> }
ValueTexts ==
    {Quoted(b) : b \in PlainBodies \cup EscapedBodies}
    \cup { <<"f", "a", "l", "s", "e">>, <<"f", "a", "l", "s">>, <<"{", "}">>,
           <<"{">> \o Quoted(<<"a">>) \o <<":">> \o Quoted(<<"b">>) \o <<"}">> }
KeyTexts == {KeyFeedback, <<"a">>, <<"f", "e", "e", "d">>}

Member(k, g, v) == Quoted(k) \o g \o <<":">> \o g \o v
ObjectTexts ==
    { <<"{">> \o g \o Member(k, g, v) \o g \o <<"}">> :
        k \in KeyTexts, g \in Gaps, v \in ValueTexts }
    \cup { <<"{">> \o Member(k1, <<>>, Quoted(<<"a">>)) \o <<",">> \o g
           \o Member(k2, <<>>, Quoted(<<"b">>)) \o t \o <<"}">> :
        k1 \in KeyTexts, k2 \in KeyTexts, g \in Gaps, t \in {<<>>, <<",">>} }

\* the example of the specification: a raw newline between ok and line
BlahExample ==
    <<"b", "l", "a", "h", " ">> \o FeedbackObject(Quoted(OkLine("\n")))
    \o <<" ", "b", "l", "a", "h">>

RawInputs ==
    TextsUpTo(MaxLen)
    \cup {pre \o o \o suf : pre \in Prefixes, o \in ObjectTexts, suf \in Suffixes}
    \cup {BlahExample}

InitExtract ==
    /\ kind = [r \in Reqs |-> "idle"]
    /\ pc = [r \in Reqs |-> "idle"]
    /\ payload = [r \in Reqs |-> NoPayload]
    /\ calls = [r \in Reqs |-> <<>>]
    /\ feedback = [r \in Reqs |-> Unset]
    /\ response = [r \in Reqs |-> NoResponse]
    /\ xraw \in RawInputs
    /\ xres = Unset

ExtractFeedback ==
    /\ xres = Unset
    /\ xres' = extract_feedback(Str(xraw))
    /\ UNCHANGED <<xraw, svars>>

NextExtract == ExtractFeedback

SpecExtract == InitExtract /\ [][NextExtract]_vars

(***************************************************************************)
(* Vocabulary of the properties                                            *)
(***************************************************************************)
Contains(s, sub) ==
    \E i \in 1..(Len(s) - Len(sub) + 1) : SubSeq(s, i, i + Len(sub) - 1) = sub

Prompt(c) == c.payload.messages[1].content
Stage(c) == Head(Prompt(c))
Finished(c) == c.answer # Pending
Failed(c) == Finished(c) /\ ~chat(c.answer).ok
Succeeded(c) == Finished(c) /\ chat(c.answer).ok

\* the text between the feedback heading and the tail of a refine-stage prompt
FeedbackSection(prompt) ==
    LET i == CHOOSE k \in 1..Len(prompt) : prompt[k] = "<V3_FEEDBACK>"
        j == CHOOSE k \in 1..Len(prompt) : prompt[k] = "<V3_TAIL>"
    IN  SubSeq(prompt, i + 1, j - 1)

Refines == {r \in Reqs : kind[r] = "refine"}
Drafts == {r \in Reqs : kind[r] = "v1"}
Done(r) == pc[r] = "done"

\* the text with a space for each raw newline, carriage return and tab
Spaced(s) == [i \in 1..Len(s) |-> IF s[i] \in {"\n", "\r", "\t"} THEN " " ELSE s[i]]

\* there is a span from an opening brace to a later closing brace
HasBraceSpan(s) ==
    \E i \in 1..Len(s) : s[i] = "{" /\ \E j \in (i + 1)..Len(s) : s[j] = "}"

\* the widest such span: from the first '{' to the last '}'
WidestSpan(s) ==
    LET lo == CHOOSE i \in 1..Len(s) : s[i] = "{" /\ \A k \in 1..(i - 1) : s[k] # "{"
        hi == CHOOSE j \in 1..Len(s) : s[j] = "}" /\ \A k \in (j + 1)..Len(s) : s[k] # "}"
    IN  SubSeq(s, lo, hi)

\* the outcome of the feedback stage for each answer of the service, and the
\* extraction of each content an answer can carry
AnswerContents == {a.body.content : a \in {x \in Answers : x.t = "response" /\ x.body.shape}}
Extracted == [c \in AnswerContents |-> extract_feedback(c)]
FeedbackStage == [a \in Answers |-> self_refine_result(a)]

\* the contents that hold a parseable object without a feedback field
ContentsWithoutField ==
    {c \in AnswerContents :
        /\ c.t = "str"
        /\ HasBraceSpan(StripFences(c.str))
        /\ LET obj == json_loads(Spaced(WidestSpan(StripFences(c.str))))
           IN  /\ obj.ok
               /\ \A i \in 1..Len(obj.val.items) : obj.val.items[i].k # KeyFeedback}

\* C1: in refine the feedback-stage call is issued and has ended before the
\* refine-stage call is issued, and the refine-stage prompt contains verbatim
\* the feedback string extracted from the feedback-stage reply, which is also
\* the feedback returned to the caller.
C1_FeedbackBeforeRefine ==
    \A r \in Refines :
        /\ Len(calls[r]) >= 1 => Stage(calls[r][1]) = "<FB_HEAD>"
        /\ \A i \in 1..(Len(calls[r]) - 1) : Finished(calls[r][i])
        /\ Len(calls[r]) >= 2 =>
            LET extracted == Extracted[chat(calls[r][1].answer).val]
                prompt == Prompt(calls[r][2])
            IN  /\ Stage(calls[r][2]) = "<V3_HEAD>"
                /\ Succeeded(calls[r][1])
                /\ extracted.ok
                /\ extracted.val.t = "str" =>
                    /\ Contains(prompt, extracted.val.str)
                    /\ FeedbackSection(prompt) = extracted.val.str
                /\ (Done(r) /\ response[r].status = 200) =>
                    response[r].body.feedback = extracted.val

C1_Witness ==
    \E r \in Refines :
        /\ Done(r) /\ response[r].status = 200
        /\ response[r].body.feedback = Str(OkLine(" "))
        /\ Contains(Prompt(calls[r][2]), OkLine(" "))

\* C2: when the feedback stage fails (its call fails or the extraction fails)
\* no refine-stage call is issued: a refine-stage call is preceded by a
\* successful feedback-stage call and a successful extraction.
C2_NoRefineAfterFailedFeedback ==
    \A r \in Refines :
        LET first == calls[r][1]
            feedbackFailed ==
                /\ Finished(first)
                /\ \/ ~chat(first.answer).ok
                   \/ ~Extracted[chat(first.answer).val].ok
        IN  /\ feedbackFailed =>
                /\ Len(calls[r]) = 1
                /\ Done(r)
                /\ response[r].status = 500
            /\ \A i \in 1..Len(calls[r]) :
                Stage(calls[r][i]) = "<V3_HEAD>" => i = 2 /\ ~feedbackFailed

C2_Witness ==
    /\ \E r \in Refines :
        /\ Done(r) /\ Len(calls[r]) = 1
        /\ Failed(calls[r][1])
    /\ \E r \in Refines :
        /\ Done(r) /\ Len(calls[r]) = 1
        /\ Succeeded(calls[r][1])
        /\ ~Extracted[chat(calls[r][1].answer).val].ok

\* C3: produce_draft (generate_v1) issues exactly one completion call, with a
\* single user-role message and temperature 0.2, and on success returns the
\* content of the first completion unchanged.
C3_DraftOneCall ==
    \A r \in Drafts :
        /\ Len(calls[r]) = 1
        /\ Stage(calls[r][1]) = "<V1_HEAD>"
        /\ Len(calls[r][1].payload.messages) = 1
        /\ calls[r][1].payload.messages[1].role = "user"
        /\ Prompt(calls[r][1]) = V1Prompt(payload[r].patient)
        /\ calls[r][1].payload.temperature = 2    \* tenths: 0.2
        /\ (Done(r) /\ Succeeded(calls[r][1])) =>
            /\ response[r].status = 200
            /\ response[r].body.v1 = calls[r][1].answer.body.content

C3_Witness ==
    \E r \in Drafts :
        /\ Done(r) /\ response[r].status = 200
        /\ response[r].body.v1 = Str(OkLineReply)

\* C4: for a reply that holds a well-formed {"feedback": "..."} object inside
\* any surrounding prose (prose with braces or fence markers included, and
\* values that contain them), the extractor returns exactly the string of the
\* feedback field, raw newline, carriage return and tab replaced by spaces.
C4_ExtractsFieldFromAnyProse ==
    xres # Unset =>
        \A pre \in Prefixes, suf \in Suffixes, g \in Gaps, b \in PlainBodies :
            xraw = pre \o <<"{">> \o g \o Member(KeyFeedback, g, Quoted(b)) \o g
                       \o <<"}">> \o suf
            => xres = Return(Str(Spaced(b)))

\* C5: a reply in which, once the fence markers are removed, there is no span
\* from a '{' to a later '}', or in which the span does not parse as JSON,
\* makes the extraction fail; no value is returned.
C5_MalformedReplyFails ==
    xres # Unset =>
        LET text == StripFences(xraw)
        IN  (\/ ~HasBraceSpan(text)
             \/ ~json_loads(Spaced(WidestSpan(text))).ok)
            => /\ ~xres.ok
               /\ xres.err \in {"RuntimeError", "JSONDecodeError"}

C5_Witness ==
    /\ xres = Raise("JSONDecodeError")
    /\ HasBraceSpan(StripFences(xraw))
    /\ Len(xraw) > MaxLen

\* C6: raw newline, carriage-return and tab characters inside the brace span
\* of an otherwise valid object do not make the extraction fail: each is read
\* as one space, and a raw newline between ok and line gives "ok line".
C6_RawWhitespaceIsSpace ==
    xres # Unset =>
        LET spaced == extract_feedback(Str(Spaced(xraw)))
        IN  /\ spaced.ok => xres = spaced
            /\ xraw = BlahExample => xres = Return(Str(OkLine(" ")))

C6_Witness ==
    /\ xraw = BlahExample
    /\ xres = Return(Str(<<"o", "k", " ", "l", "i", "n", "e">>))

\* C7: a feedback-stage reply with a parseable object that has no feedback
\* field gives the empty string, not an error; the refine-stage call is still
\* issued, with an empty feedback section, and a successful response carries
\* the feedback "".
C7_MissingFieldIsEmpty ==
    \A r \in Refines :
        (/\ Succeeded(calls[r][1])
         /\ chat(calls[r][1].answer).val \in ContentsWithoutField)
        => /\ feedback[r] = Str(<<>>)
           /\ Len(calls[r]) = 2
           /\ Stage(calls[r][2]) = "<V3_HEAD>"
           /\ FeedbackSection(Prompt(calls[r][2])) = <<>>
           /\ (Done(r) /\ Succeeded(calls[r][2])) =>
                /\ response[r].status = 200
                /\ response[r].body.feedback = Str(<<>>)

C7_Witness ==
    \E r \in Refines :
        /\ Done(r) /\ response[r].status = 200
        /\ response[r].body.feedback = Str(<<>>)
        /\ calls[r][1].answer.body.content.str
            = <<"{", QUOTE, "a", QUOTE, ":", QUOTE, "b", QUOTE, "}">>

\* some stage of request r has failed: a completion call or the extraction
AnyFailure(r) ==
    \/ \E i \in 1..Len(calls[r]) : Failed(calls[r][i])
    \/ /\ kind[r] = "refine"
       /\ Succeeded(calls[r][1])
       /\ ~Extracted[chat(calls[r][1].answer).val].ok

\* C8: every failure in /api/v1 or /api/refine ends the request with status
\* 500 and a detail, and with no partial result: a refine response carries
\* feedback and v3 (200) or neither (500), a v1 response carries v1 or is a 500.
C8_FailureIs500NoPartial ==
    \A r \in Refines \cup Drafts :
        Done(r) =>
            IF AnyFailure(r)
            THEN /\ response[r].status = 500
                 /\ DOMAIN response[r].body = {"detail"}
            ELSE /\ response[r].status = 200
                 /\ DOMAIN response[r].body =
                      IF kind[r] = "refine" THEN {"feedback", "v3"} ELSE {"v1"}

C8_Witness ==
    \E r \in Refines :
        /\ Done(r) /\ response[r].status = 500
        /\ Len(calls[r]) = 2
        /\ feedback[r] = Str(OkLine(" "))

\* C9: no completion call is retried: a /api/v1 request makes at most one
\* upstream call and a /api/refine request at most two, one per stage; after a
\* failed call the request makes no further call and the caller receives that
\* failure.
C9_NoRetry ==
    \A r \in Reqs :
        /\ Len(calls[r]) <= (IF kind[r] = "refine" THEN 2 ELSE IF kind[r] = "v1" THEN 1 ELSE 0)
        /\ \A i, j \in 1..Len(calls[r]) : Stage(calls[r][i]) = Stage(calls[r][j]) => i = j
        /\ \A i \in 1..Len(calls[r]) :
            Failed(calls[r][i]) =>
                /\ i = Len(calls[r])
                /\ Done(r)
                /\ response[r] = HTTPException(chat(calls[r][i].answer).err)

C9_Witness ==
    /\ \E r \in Drafts : Done(r) /\ Failed(calls[r][1])
    /\ \E r \in Refines : Done(r) /\ Len(calls[r]) = 2 /\ Failed(calls[r][2])

\* what request r holds is a function of its own payload and of the answers
\* to its own calls
OwnOutcome(r) ==
    CASE kind[r] = "idle" ->
            /\ calls[r] = <<>> /\ response[r] = NoResponse /\ feedback[r] = Unset
      [] kind[r] = "ping" ->
            /\ calls[r] = <<>> /\ response[r] = Ok([text |-> "pong"])
            /\ feedback[r] = Unset
      [] kind[r] = "v1" ->
            /\ Len(calls[r]) = 1
            /\ calls[r][1].payload = generate_v1(payload[r].patient)
            /\ feedback[r] = Unset
            /\ response[r] = IF Finished(calls[r][1])
                             THEN api_v1_response(chat(calls[r][1].answer))
                             ELSE NoResponse
      [] kind[r] = "refine" ->
            /\ calls[r][1].payload = self_refine_education(payload[r].patient, payload[r].v1)
            /\ IF ~Finished(calls[r][1])
               THEN /\ Len(calls[r]) = 1 /\ feedback[r] = Unset
                    /\ response[r] = NoResponse
               ELSE LET fb == FeedbackStage[calls[r][1].answer]
                    IN  IF ~fb.ok
                        THEN /\ Len(calls[r]) = 1 /\ feedback[r] = Unset
                             /\ response[r] = HTTPException(fb.err)
                        ELSE /\ Len(calls[r]) = 2
                             /\ feedback[r] = fb.val
                             /\ calls[r][2].payload =
                                  generate_v3(payload[r].patient, payload[r].v1, fb.val)
                             /\ response[r] =
                                  IF Finished(calls[r][2])
                                  THEN api_refine_response(fb.val, chat(calls[r][2].answer))
                                  ELSE NoResponse

\* a step changes the state of one request only
OneRequestPerStep ==
    \A r, q \in Reqs :
        (r # q /\ <<kind[r], pc[r], payload[r], calls[r], feedback[r], response[r]>>
                  # <<kind'[r], pc'[r], payload'[r], calls'[r], feedback'[r], response'[r]>>)
        => <<kind[q], pc[q], payload[q], calls[q], feedback[q], response[q]>>
           = <<kind'[q], pc'[q], payload'[q], calls'[q], feedback'[q], response'[q]>>

\* C10: with requests interleaving at their upstream calls, the outcome of a
\* request depends only on its own payload and on the answers to its own calls:
\* the feedback in a refine-stage prompt is the one extracted in the same
\* request, and a step of one request (a failure included) changes neither the
\* result nor the calls of another.
C10_RequestsIndependent ==
    /\ [](\A r \in Reqs : OwnOutcome(r))
    /\ [][OneRequestPerStep]_vars

C10_Witness ==
    \E r, q \in Refines :
        /\ r # q
        /\ Done(r) /\ response[r].status = 500 /\ Len(calls[r]) = 1
        /\ Done(q) /\ response[q].status = 200
        /\ response[q].body.feedback = Str(OkLine(" "))
        /\ payload[r] # payload[q]

=============================================================================
